---- MODULE Spec2Model ----
(***************************************************************************)
(* Model of the image batch of upload-visualize-app: the ImageUpload       *)
(* component (src/src/components/ImageUpload.tsx) and the Index page that  *)
(* owns the selection and the second copy of the batch                     *)
(* (src/unnamed/part_001).                                                 *)
(*                                                                         *)
(* Every event handler of the browser runs to completion, and React        *)
(* re-renders between two events, so each handler is one atomic action.    *)
(* handleDrop and handleFileSelect are memoised with an empty dependency   *)
(* list (useCallback(..., [])), so the processFiles they call is the one   *)
(* of the first render: its closure holds the first render's images,       *)
(* maxImages and onImagesChange, and that onImagesChange is the first      *)
(* render's handleImagesChange, whose closure holds the first render's     *)
(* selectedImage.                                                          *)
(***************************************************************************)
EXTENDS Integers, Sequences, FiniteSets, TLC

\* ---------------------------------------------------------------- bounds
maxImages == 2      \* the maxImages prop of ImageUpload
MaxFiles == 3       \* longest file list of one drop / file selection
MaxSubmits == 2     \* submissions (processFiles calls that start decodes) per run
MaxClock == 1       \* largest value Date.now() takes

\* null, as a value comparable with a descriptor
Null == [id |-> <<-1, -1>>, file |-> <<0, 0>>]

\* ------------------------------------------------------------ file types
\* A content type is a string, modelled as its sequence of characters.
ImagePrefix == <<"i", "m", "a", "g", "e", "/">>
PngType == <<"i", "m", "a", "g", "e", "/", "p", "n", "g">>
TextType == <<"t", "e", "x", "t", "/", "p", "l", "a", "i", "n">>
FileTypes == {PngType, TextType}

Min(a, b) == IF a < b THEN a ELSE b
Max(a, b) == IF a > b THEN a ELSE b

\* String.prototype.startsWith
StartsWith(str, prefix) ==
    /\ Len(str) >= Len(prefix)
    /\ SubSeq(str, 1, Len(prefix)) = prefix

\* Array.prototype.slice(0, end): a negative end counts from the back.
Slice0(seq, end) ==
    LET e == IF end < 0 THEN Max(Len(seq) + end, 0) ELSE Min(end, Len(seq))
    IN  SubSeq(seq, 1, e)

\* The files of one drop / selection: a sequence of content types.  The File
\* object at position p of submission s is identified by <<s, p>>.
FileLists == UNION {[1..n -> FileTypes] : n \in 0..MaxFiles}

\* imageFiles of processFiles: the positions whose type starts with "image/"
ImageFiles(files) ==
    LET positions == [p \in 1..Len(files) |-> p]
        IsImage(p) == StartsWith(files[p], ImagePrefix)
    IN  SelectSeq(positions, IsImage)

\* ------------------------------------------------------------------ state
VARIABLES
    images,         \* ImageUpload: useState images
    uploading,      \* ImageUpload: useState uploading
    uploadProgress, \* ImageUpload: useState uploadProgress, the fraction <<num, den>>
    pageImages,     \* Index: useState images
    selectedImage,  \* Index: useState selectedImage (a descriptor or Null)
    now,            \* Date.now()
    nSubs,          \* number of processFiles calls that started decodes
    sub,            \* per submission: the closure of that processFiles call
    last,           \* the handler that ran last (history)
    input,          \* the argument of the call under study (handler or render)
    view            \* AnalysisPanel: what the render under study computed

vars == <<images, uploading, uploadProgress, pageImages, selectedImage, now, nSubs, sub, last,
          input, view>>

\* the state of ImageUpload and Index
batchVars == <<images, uploading, uploadProgress, pageImages, selectedImage, now, nSubs, sub, last>>

\* the state used only by the renders of AnalysisPanel
panelVars == <<input, view>>

\* no call under study
NoRender == <<>>

Subs == 1..MaxSubmits

\* The closure of the first render, which handleDrop / handleFileSelect keep.
FirstRenderImages == <<>>
FirstRenderSelected == Null

IdleSub == [status |-> "idle", nImage |-> 0, files |-> <<>>, task |-> <<>>, newImages |-> <<>>]

\* after the terminal update nothing refers to the closure any more
CommittedSub == [status |-> "committed", nImage |-> 0, files |-> <<>>, task |-> <<>>, newImages |-> <<>>]

Init ==
    /\ images = <<>>
    /\ uploading = FALSE
    /\ uploadProgress = <<0, 1>>
    /\ pageImages = <<>>
    /\ selectedImage = Null
    /\ now = 0
    /\ nSubs = 0
    /\ sub = [s \in Subs |-> IdleSub]
    /\ last = [op |-> "init", s |-> 0, hit |-> FALSE]
    /\ input = NoRender
    /\ view = NoRender

\* --------------------------------------------------------------- the page
\* handleImagesChange(newImages) of a render whose selectedImage is `sel`:
\* the value selectedImage has after it, given its current value `cur`.
HandleImagesChangeSel(newImages, sel, cur) ==
    IF Len(newImages) > 0 /\ sel = Null THEN newImages[1] ELSE cur

\* a page that keeps its batch when handed an empty one
HandleImagesChangeKeepEmpty(newImages) ==
    IF newImages = <<>> THEN pageImages ELSE newImages

\* handleImagesChange(newImages): the page's images after setImages(newImages)
HandleImagesChangeImages(newImages) ==
    newImages

\* ------------------------------------------------------------ processFiles
\* a processFiles that forgets the slice
FilesToProcessNoCap(files, closureImages) ==
    ImageFiles(files)

FilesToProcess(files, closureImages) ==
    Slice0(ImageFiles(files), maxImages - Len(closureImages))

ProcessFiles(files) ==
    LET filesToProcess == FilesToProcess(files, FirstRenderImages)
    IN  IF Len(filesToProcess) = 0
        THEN /\ last' = [op |-> "nofiles", s |-> 0, hit |-> FALSE]
             /\ UNCHANGED <<images, uploading, uploadProgress, pageImages, panelVars,
                            selectedImage, now, nSubs, sub>>
        ELSE /\ nSubs < MaxSubmits
             /\ nSubs' = nSubs + 1
             /\ uploading' = TRUE
             /\ uploadProgress' = <<0, 1>>
             /\ sub' = [sub EXCEPT ![nSubs + 1] =
                          [status |-> "inflight",
                           nImage |-> Len(ImageFiles(files)),
                           files |-> filesToProcess,
                           task |-> [i \in 1..Len(filesToProcess) |-> "reading"],
                           newImages |-> <<>>]]
             /\ last' = [op |-> "submit", s |-> nSubs + 1, hit |-> FALSE]
             /\ UNCHANGED <<images, pageImages, selectedImage, now, panelVars>>

HandleDrop ==
    \E files \in FileLists : ProcessFiles(files)

\* the file input is disabled once the batch is full
HandleFileSelect ==
    /\ Len(images) < maxImages
    /\ \E files \in FileLists : ProcessFiles(files)

\* ------------------------------------------------------- decode callbacks
\* reader.onload: creates the Image and sets its src
ReaderOnload(s, i) ==
    /\ sub[s].status = "inflight"
    /\ sub[s].task[i] = "reading"
    /\ sub' = [sub EXCEPT ![s].task[i] = "decoding"]
    /\ last' = [op |-> "read", s |-> s, hit |-> FALSE]
    /\ UNCHANGED <<images, uploading, uploadProgress, pageImages, selectedImage, now, nSubs, panelVars>>

\* an id made of the clock alone
UploadedImageNoIndex(s, i) ==
    [id |-> <<now, 0>>, file |-> <<s, sub[s].files[i]>>]

\* the descriptor img.onload builds for index i (0-based in the id)
UploadedImage(s, i) ==
    [id |-> <<now, i - 1>>, file |-> <<s, sub[s].files[i]>>]

\* an img.onload that publishes after every decode
IsLastDecodeEager(newImages, filesToProcess) ==
    Len(newImages) >= 1

\* newImages.length === filesToProcess.length
IsLastDecode(newImages, filesToProcess) ==
    Len(newImages) = Len(filesToProcess)

\* [...images, ...newImages] with the images of the closure
UpdatedImages(closureImages, newImages) ==
    closureImages \o newImages

\* img.onload
ImgOnload(s, i) ==
    /\ sub[s].status = "inflight"
    /\ sub[s].task[i] = "decoding"
    /\ LET newImages == Append(sub[s].newImages, UploadedImage(s, i))
           filesToProcess == sub[s].files
           updatedImages == UpdatedImages(FirstRenderImages, newImages)
       IN  IF IsLastDecode(newImages, filesToProcess)
           THEN /\ images' = updatedImages
                /\ pageImages' = HandleImagesChangeImages(updatedImages)
                /\ selectedImage' =
                      HandleImagesChangeSel(updatedImages, FirstRenderSelected, selectedImage)
                /\ uploading' = FALSE
                /\ uploadProgress' = <<0, 1>>
                /\ sub' = [sub EXCEPT ![s] = CommittedSub]
                /\ last' = [op |-> "commit", s |-> s, hit |-> FALSE]
           ELSE /\ uploadProgress' = <<Len(newImages) * 100, Len(filesToProcess)>>
                /\ sub' = [sub EXCEPT ![s].task[i] = "loaded",
                                      ![s].newImages = newImages]
                /\ last' = [op |-> "load", s |-> s, hit |-> FALSE]
                /\ UNCHANGED <<images, pageImages, selectedImage, uploading>>
    /\ UNCHANGED <<now, nSubs, panelVars>>

\* The read or the decode of candidate i fails: FileReader and Image fire
\* their error events, for which processFiles registers no handler.
DecodeFail(s, i) ==
    /\ sub[s].status = "inflight"
    /\ sub[s].task[i] \in {"reading", "decoding"}
    /\ sub' = [sub EXCEPT ![s].task[i] = "failed"]
    /\ last' = [op |-> "fail", s |-> s, hit |-> FALSE]
    /\ UNCHANGED <<images, uploading, uploadProgress, pageImages, selectedImage, now, nSubs, panelVars>>

\* ------------------------------------------------- remove, select, clear
\* updatedImages[0] || null
FirstOrNull(seq) == IF Len(seq) > 0 THEN seq[1] ELSE Null

\* a removeImage that forgets onImageSelect
RemoveSelKeep(id, updatedImages) ==
    HandleImagesChangeSel(updatedImages, selectedImage, selectedImage)

\* the selection after removeImage(id)
RemoveSel(id, updatedImages) ==
    IF selectedImage # Null /\ selectedImage.id = id
    THEN FirstOrNull(updatedImages)
    ELSE HandleImagesChangeSel(updatedImages, selectedImage, selectedImage)

\* removeImage(id), called from the remove button of a grid cell
RemoveImage(id) ==
    LET Keep(img) == img.id # id
        updatedImages == SelectSeq(images, Keep)
    IN  /\ images' = updatedImages
        /\ pageImages' = HandleImagesChangeImages(updatedImages)
        /\ selectedImage' = RemoveSel(id, updatedImages)
        /\ last' = [op |-> "remove", s |-> 0,
                    hit |-> (selectedImage # Null /\ selectedImage.id = id)]
        /\ UNCHANGED <<uploading, uploadProgress, now, nSubs, sub, panelVars>>

RemoveClick ==
    \E k \in 1..Len(images) : RemoveImage(images[k].id)

\* a handleImageSelect that ignores an image whose id is not in the batch
HandleImageSelectChecked(image) ==
    /\ selectedImage' = IF \E k \in 1..Len(images) : images[k].id = image.id
                        THEN image ELSE selectedImage
    /\ last' = [op |-> "select", s |-> 0, hit |-> FALSE]
    /\ UNCHANGED <<images, uploading, uploadProgress, pageImages, now, nSubs, sub, panelVars>>

\* handleImageSelect(image), called from the click on a grid cell
HandleImageSelect(image) ==
    /\ selectedImage' = image
    /\ last' = [op |-> "select", s |-> 0, hit |-> FALSE]
    /\ UNCHANGED <<images, uploading, uploadProgress, pageImages, now, nSubs, sub, panelVars>>

SelectClick ==
    \E k \in 1..Len(images) : HandleImageSelect(images[k])

\* the Clear Batch button
ClearSel(cur) == HandleImagesChangeSel(<<>>, cur, cur)

ClearBatch ==
    /\ images' = <<>>
    /\ pageImages' = HandleImagesChangeImages(<<>>)
    /\ selectedImage' = ClearSel(selectedImage)
    /\ last' = [op |-> "clear", s |-> 0, hit |-> FALSE]
    /\ UNCHANGED <<uploading, uploadProgress, now, nSubs, sub, panelVars>>

\* the clock advances
Tick ==
    /\ now < MaxClock
    /\ now' = now + 1
    /\ last' = [op |-> "tick", s |-> 0, hit |-> FALSE]
    /\ UNCHANGED <<images, uploading, uploadProgress, pageImages, selectedImage, nSubs, sub, panelVars>>

TaskIds(s) == 1..Len(sub[s].task)

Next ==
    \/ HandleDrop
    \/ HandleFileSelect
    \/ \E s \in Subs : \E i \in TaskIds(s) : ReaderOnload(s, i)
    \/ \E s \in Subs : \E i \in TaskIds(s) : ImgOnload(s, i)
    \/ \E s \in Subs : \E i \in TaskIds(s) : DecodeFail(s, i)
    \/ RemoveClick
    \/ SelectClick
    \/ ClearBatch
    \/ Tick

Spec == Init /\ [][Next]_vars

\* Every read and every decode eventually completes or fails.
Settle(s, i) ==
    /\ i \in TaskIds(s)
    /\ (ReaderOnload(s, i) \/ ImgOnload(s, i) \/ DecodeFail(s, i))

FairSpec ==
    Spec /\ \A s \in Subs : \A i \in 1..maxImages : WF_vars(Settle(s, i))

\* ------------------------------------------ the handlers as operations
\* handleImageSelect and removeImage applied once, to any argument, in a
\* state of the shape the component reaches: the ids of the batch differ and
\* are in completion order, both copies agree, and the selection is in the
\* batch unless the batch is empty.
DescPool ==
    {[id |-> <<t, k>>, file |-> <<1, k + 1>>] : t \in 0..MaxClock, k \in 0..(maxImages - 1)}

Batches ==
    {b \in UNION {[1..n -> DescPool] : n \in 0..maxImages} :
        \A x, y \in 1..Len(b) :
            x < y => (b[x].id # b[y].id /\ b[x].id[1] <= b[y].id[1])}

HandlerInit ==
    /\ images \in Batches
    /\ pageImages = images
    /\ selectedImage \in DescPool \cup {Null}
    /\ images # <<>> => \E k \in 1..Len(images) : images[k] = selectedImage
    /\ uploading = FALSE
    /\ uploadProgress = <<0, 1>>
    /\ now = MaxClock
    /\ nSubs = 0
    /\ sub = [s \in Subs |-> IdleSub]
    /\ last = [op |-> "init", s |-> 0, hit |-> FALSE]
    /\ input \in [image : DescPool]
    /\ view = NoRender

SelectCall ==
    /\ last.op = "init"
    /\ HandleImageSelect(input.image)

RemoveCall ==
    /\ last.op = "init"
    /\ RemoveImage(input.image.id)

HandlerNext ==
    \/ SelectCall
    \/ RemoveCall

HandlerSpec == HandlerInit /\ [][HandlerNext]_vars

\* ------------------------------------------------- AnalysisPanel: formats
\* Strings are sequences of characters.
LowerCase == <<"a", "b", "c", "d", "e", "f", "g", "h", "i", "j", "k", "l", "m", "n", "o", "p", "q", "r", "s", "t", "u", "v", "w", "x", "y", "z">>
UpperCase == <<"A", "B", "C", "D", "E", "F", "G", "H", "I", "J", "K", "L", "M", "N", "O", "P", "Q", "R", "S", "T", "U", "V", "W", "X", "Y", "Z">>
Digits == <<"0", "1", "2", "3", "4", "5", "6", "7", "8", "9">>
Unknown == <<"U", "N", "K", "N", "O", "W", "N">>

\* String.prototype.toUpperCase
UpperChar(c) ==
    IF \E i \in 1..Len(LowerCase) : LowerCase[i] = c
    THEN UpperCase[CHOOSE i \in 1..Len(LowerCase) : LowerCase[i] = c]
    ELSE c

ToUpperCase(str) == [i \in 1..Len(str) |-> UpperChar(str[i])]

\* String.prototype.split('.'): the pieces between the dots
RECURSIVE SplitDot(_)
SplitDot(str) ==
    IF \A i \in 1..Len(str) : str[i] # "."
    THEN <<str>>
    ELSE LET d == CHOOSE i \in 1..Len(str) :
                     str[i] = "." /\ \A j \in 1..(i - 1) : str[j] # "."
         IN  <<SubSeq(str, 1, d - 1)>> \o SplitDot(SubSeq(str, d + 1, Len(str)))

\* Array.prototype.pop: the last element
Pop(seq) == seq[Len(seq)]

\* img.name.split('.').pop()?.toUpperCase() || 'UNKNOWN'
ExtOf(name) ==
    LET ext == ToUpperCase(Pop(SplitDot(name)))
    IN  IF ext = <<>> THEN Unknown ELSE ext

\* A plain object: its own properties <<key, value>> in creation order.
HasKey(obj, key) == \E i \in 1..Len(obj) : obj[i][1] = key

\* obj[key] of an own property
ObjGet(obj, key) == obj[CHOOSE i \in 1..Len(obj) : obj[i][1] = key][2]

\* obj[key] = value
ObjSet(obj, key, value) ==
    IF HasKey(obj, key)
    THEN [i \in 1..Len(obj) |-> IF obj[i][1] = key THEN <<key, value>> ELSE obj[i]]
    ELSE Append(obj, <<key, value>>)

DigitValue(c) == (CHOOSE i \in 1..Len(Digits) : Digits[i] = c) - 1

RECURSIVE ToNumber(_)
ToNumber(str) ==
    IF str = <<>> THEN 0
    ELSE 10 * ToNumber(SubSeq(str, 1, Len(str) - 1)) + DigitValue(str[Len(str)])

\* an integer-like property key (an array index): a canonical decimal string
\* below 2^32 - 1; every such string of up to nine digits is one, and the
\* keys here are shorter than ten digits
IsArrayIndex(key) ==
    /\ Len(key) >= 1
    /\ Len(key) < 10
    /\ \A i \in 1..Len(key) : \E d \in 1..Len(Digits) : Digits[d] = key[i]
    /\ (Len(key) = 1 \/ key[1] # "0")

\* the entries of seq ordered by ascending numeric key
RECURSIVE SortByNumber(_)
SortByNumber(seq) ==
    IF seq = <<>> THEN <<>>
    ELSE LET m == CHOOSE i \in 1..Len(seq) :
                     \A j \in 1..Len(seq) : ToNumber(seq[i][1]) <= ToNumber(seq[j][1])
             rest == [i \in 1..(Len(seq) - 1) |-> IF i < m THEN seq[i] ELSE seq[i + 1]]
         IN  <<seq[m]>> \o SortByNumber(rest)

\* Object.entries: the integer-like keys in ascending numeric order, then the
\* other keys in creation order
ObjectEntries(obj) ==
    LET IsIndex(e) == IsArrayIndex(e[1])
        IsName(e) == ~IsArrayIndex(e[1])
    IN  SortByNumber(SelectSeq(obj, IsIndex)) \o SelectSeq(obj, IsName)

\* a reduce step that forgets the count so far
FormatStepNoSum(acc, name) ==
    ObjSet(acc, ExtOf(name), 1)

\* acc[ext] = (acc[ext] || 0) + 1
FormatStep(acc, name) ==
    LET ext == ExtOf(name)
    IN  ObjSet(acc, ext, (IF HasKey(acc, ext) THEN ObjGet(acc, ext) ELSE 0) + 1)

RECURSIVE FormatReduce(_, _)
FormatReduce(acc, names) ==
    IF names = <<>> THEN acc
    ELSE FormatReduce(FormatStep(acc, Head(names)), Tail(names))

\* formatAnalysis(): the chart entries [name, value]
FormatAnalysis(names) ==
    LET entries == ObjectEntries(FormatReduce(<<>>, names))
    IN  [i \in 1..Len(entries) |-> [name |-> entries[i][1], value |-> entries[i][2]]]

\* the names of the images prop
NameAJpg == <<"a", ".", "j", "p", "g">>
NameBPng == <<"b", ".", "P", "N", "G">>
NameCJpg == <<"c", ".", "j", "p", "g">>
NameNoDot == <<"a", "b">>
NameDotEnd == <<"a", ".">>
NameSeven == <<"x", ".", "7">>
NameTen == <<"y", ".", "1", "0">>
NameLeadingZero == <<"z", ".", "0", "7">>
NameTwoDots == <<"a", ".", "b", ".", "c">>
NamePool == {NameAJpg, NameBPng, NameCJpg, NameNoDot, NameDotEnd, NameSeven, NameTen, NameLeadingZero, NameTwoDots}

MaxNames == 3       \* longest images prop of a render

NameBatches == UNION {[1..n -> NamePool] : n \in 0..MaxNames}

\* the initial state of ImageUpload and Index, under a render of the panel
BatchIdle ==
    /\ images = <<>>
    /\ uploading = FALSE
    /\ uploadProgress = <<0, 1>>
    /\ pageImages = <<>>
    /\ selectedImage = Null
    /\ now = 0
    /\ nSubs = 0
    /\ sub = [s \in Subs |-> IdleSub]
    /\ last = [op |-> "init", s |-> 0, hit |-> FALSE]

FormatInit ==
    /\ BatchIdle
    /\ input \in [names : NameBatches]
    /\ view = NoRender

\* one render: formatData = formatAnalysis()
RenderFormat ==
    /\ view = NoRender
    /\ view' = [formatData |-> FormatAnalysis(input.names)]
    /\ UNCHANGED <<batchVars, input>>

FormatSpec == FormatInit /\ [][RenderFormat]_vars

\* ------------------------------------------------ AnalysisPanel: analysis
\* A JavaScript number is a fraction <<num, den>> in lowest terms with
\* den > 0, or NaN.  (Doubles are modelled by exact fractions.)
NaN == <<0, 0>>
IsNaN(x) == x = NaN
Num(n) == <<n, 1>>

RECURSIVE GCD(_, _)
GCD(a, b) == IF b = 0 THEN a ELSE GCD(b, a % b)

Norm(n, d) == LET g == GCD(n, d) IN <<n \div g, d \div g>>

\* a + b
Add(a, b) ==
    IF IsNaN(a) \/ IsNaN(b) THEN NaN
    ELSE Norm(a[1] * b[2] + b[1] * a[2], a[2] * b[2])

\* a / n for a length n; the dividend of a division by 0 is 0 here (the sum
\* of an empty array), and 0 / 0 is NaN
DivBy(a, n) ==
    IF IsNaN(a) \/ n = 0 THEN NaN ELSE Norm(a[1], a[2] * n)

\* a * 100
Times100(a) ==
    IF IsNaN(a) THEN NaN ELSE Norm(a[1] * 100, a[2])

\* Math.round of a value that is not negative
MathRound(a) ==
    IF IsNaN(a) THEN NaN ELSE Num((2 * a[1] + a[2]) \div (2 * a[2]))

\* detections.reduce((avg, det) => avg + det.conf, 0)
RECURSIVE SumConf(_)
SumConf(detections) ==
    IF detections = <<>> THEN Num(0)
    ELSE Add(SumConf(SubSeq(detections, 1, Len(detections) - 1)),
             detections[Len(detections)].conf)

\* detections.reduce(...) / detections.length
MeanConf(detections) ==
    DivBy(SumConf(detections), Len(detections))

\* analysisResult?.images.find(img => selectedImage && img.image_name === selectedImage.name):
\* the index of the first match, 0 for undefined
CurrentImageAnalysis(analysis, selected) ==
    IF ~analysis.present \/ ~selected.sel THEN 0
    ELSE IF \E i \in 1..Len(analysis.images) : analysis.images[i].image_name = selected.name
         THEN CHOOSE i \in 1..Len(analysis.images) :
                  /\ analysis.images[i].image_name = selected.name
                  /\ \A j \in 1..(i - 1) : analysis.images[j].image_name # selected.name
         ELSE 0

\* analysisResult.images.reduce((total, img) => total + img.detections.length, 0)
RECURSIVE DetectionCount(_)
DetectionCount(imgs) ==
    IF imgs = <<>> THEN 0
    ELSE DetectionCount(SubSeq(imgs, 1, Len(imgs) - 1)) + Len(imgs[Len(imgs)].detections)

\* analysisResult.images.reduce((total, img) => total + <mean of img>, 0)
RECURSIVE SumMeans(_)
SumMeans(imgs) ==
    IF imgs = <<>> THEN Num(0)
    ELSE Add(SumMeans(SubSeq(imgs, 1, Len(imgs) - 1)), MeanConf(imgs[Len(imgs)].detections))

\* a render without analysis that averages over no images
NoAnalysisComputed ==
    [summary |-> [description |-> <<"placeholder">>, labels |-> <<>>, confidence |-> Num(0)],
     dashboard |-> [detectionCount |-> 0,
                    averageConfidence |-> MathRound(Times100(DivBy(Num(0), 0))),
                    processingTime |-> "0s"]]

\* analysisData of a render without analysis: the placeholder
NoAnalysisData ==
    [summary |-> [description |-> <<"placeholder">>, labels |-> <<>>, confidence |-> Num(0)],
     dashboard |-> [detectionCount |-> 0, averageConfidence |-> Num(0),
                    processingTime |-> "0s"]]

\* analysisData; a description is the tuple of the values its text shows
AnalysisData(analysis, selected) ==
    IF analysis.present
    THEN LET c == CurrentImageAnalysis(analysis, selected)
         IN  [summary |->
                [description |->
                    IF selected.sel /\ c # 0
                    THEN <<"image", selected.name, Len(analysis.images[c].detections),
                           analysis.images[c].domain>>
                    ELSE <<"batch", analysis.summary.total_images,
                           Len(analysis.summary.unique_labels)>>,
                 labels |-> analysis.summary.unique_labels,
                 confidence |->
                    IF c # 0
                    THEN MathRound(Times100(MeanConf(analysis.images[c].detections)))
                    ELSE Num(0)],
              dashboard |->
                [detectionCount |-> DetectionCount(analysis.images),
                 averageConfidence |->
                    MathRound(Times100(DivBy(SumMeans(analysis.images), Len(analysis.images)))),
                 processingTime |-> "2.4s"]]
    ELSE NoAnalysisData

\* Names every plain object inherits from Object.prototype: acc[name] is
\* truthy for them before any own property is made.
InheritedKeys == {<<"c", "o", "n", "s", "t", "r", "u", "c", "t", "o", "r">>, <<"t", "o", "S", "t", "r", "i", "n", "g">>}

\* the forEach body of detectionData: acc is the list of own properties
\* <<class_name, [count, totalConf]>>
DetectionStep(acc, det) ==
    LET className == det.class_name
    IN  IF className \in InheritedKeys
        THEN acc
        ELSE LET old == IF HasKey(acc, className) THEN ObjGet(acc, className)
                        ELSE [count |-> 0, totalConf |-> Num(0)]
             IN  ObjSet(acc, className,
                        [count |-> old.count + 1, totalConf |-> Add(old.totalConf, det.conf)])

RECURSIVE DetectionsReduce(_, _)
DetectionsReduce(acc, detections) ==
    IF detections = <<>> THEN acc
    ELSE DetectionsReduce(DetectionStep(acc, Head(detections)), Tail(detections))

RECURSIVE ImagesReduce(_, _)
ImagesReduce(acc, imgs) ==
    IF imgs = <<>> THEN acc
    ELSE ImagesReduce(DetectionsReduce(acc, Head(imgs).detections), Tail(imgs))

\* a label that keeps the class name as given
LabelAsGiven(name) == name

\* name.charAt(0).toUpperCase() + name.slice(1)
Capitalize(name) ==
    IF name = <<>> THEN name
    ELSE <<UpperChar(name[1])>> \o SubSeq(name, 2, Len(name))

\* Array.prototype.sort((a, b) => b.count - a.count): stable, descending
RECURSIVE SortByCount(_)
SortByCount(seq) ==
    IF seq = <<>> THEN <<>>
    ELSE LET m == CHOOSE i \in 1..Len(seq) :
                     /\ \A j \in 1..Len(seq) : seq[j].count <= seq[i].count
                     /\ \A j \in 1..(i - 1) : seq[j].count < seq[i].count
             rest == [i \in 1..(Len(seq) - 1) |-> IF i < m THEN seq[i] ELSE seq[i + 1]]
         IN  <<seq[m]>> \o SortByCount(rest)

\* detectionData
DetectionData(analysis) ==
    IF analysis.present
    THEN LET entries == ObjectEntries(ImagesReduce(<<>>, analysis.images))
             mapped == [i \in 1..Len(entries) |->
                          [name |-> Capitalize(entries[i][1]),
                           count |-> entries[i][2].count,
                           confidence |->
                              MathRound(Times100(DivBy(entries[i][2].totalConf,
                                                       entries[i][2].count)))]]
         IN  SortByCount(mapped)
    ELSE <<>>

\* ------------------------------------------------- renders with analysis
MaxAnalysed == 2    \* images of an analysis result
MaxDetections == 2  \* detections of one analysed image

ClassDog == <<"d", "o", "g">>
ClassCat == <<"c", "a", "t">>
ClassSeven == <<"7">>
ClassConstructor == <<"c", "o", "n", "s", "t", "r", "u", "c", "t", "o", "r">>

\* confidences 0, 0.6, 0.8 and 1
Conf0 == <<0, 1>>
Conf6 == <<3, 5>>
Conf8 == <<4, 5>>
Conf10 == <<1, 1>>

NoAnalysis ==
    [present |-> FALSE, summary |-> [total_images |-> 0, unique_labels |-> <<>>], images |-> <<>>]

SeqsUpTo(set, n) == UNION {[1..k -> set] : k \in 0..n}

\* the analysis results whose images are named names and whose detections
\* are drawn from dets
Analyses(names, dets) ==
    {[present |-> TRUE,
      summary |-> [total_images |-> Len(imgs), unique_labels |-> <<ClassDog>>],
      images |-> imgs] :
        imgs \in SeqsUpTo([image_name : names, domain : {"general"},
                           detections : SeqsUpTo(dets, MaxDetections)], MaxAnalysed)}

\* ten detections of confidence 1 in one image, one of confidence 0 in another
TenTimes(det) == [i \in 1..10 |-> det]

TwoLevelAnalysis ==
    [present |-> TRUE,
     summary |-> [total_images |-> 2, unique_labels |-> <<ClassDog>>],
     images |-> <<[image_name |-> NameAJpg, domain |-> "general",
                   detections |-> TenTimes([class_name |-> ClassDog, conf |-> Conf10])],
                  [image_name |-> NameCJpg, domain |-> "general",
                   detections |-> <<[class_name |-> ClassDog, conf |-> Conf0]>>]>>]

NoSelection == [sel |-> FALSE, name |-> <<>>]

Selections == {NoSelection} \cup [sel : {TRUE}, name : {NameAJpg, NameBPng}]

\* one render: analysisData and detectionData
RenderAnalysis ==
    /\ view = NoRender
    /\ view' = [analysisData |-> AnalysisData(input.analysis, input.selected),
                detectionData |-> DetectionData(input.analysis)]
    /\ UNCHANGED <<batchVars, input>>

\* renders that differ in the confidences, the image names and the selection
AnalysisInit ==
    /\ BatchIdle
    /\ input \in [names : {<<>>, <<NameAJpg, NameBPng>>},
                   selected : Selections,
                   analysis : {NoAnalysis, TwoLevelAnalysis} \cup
                              Analyses({NameAJpg, NameCJpg},
                                       [class_name : {ClassDog}, conf : {Conf6, Conf8}])]
    /\ view = NoRender

AnalysisSpec == AnalysisInit /\ [][RenderAnalysis]_vars

\* a detection of a class named like an inherited property, then one of a dog
InheritedNameAnalysis ==
    [present |-> TRUE,
     summary |-> [total_images |-> 1, unique_labels |-> <<ClassDog>>],
     images |-> <<[image_name |-> NameAJpg, domain |-> "general",
                   detections |-> <<[class_name |-> ClassConstructor, conf |-> Conf6],
                                    [class_name |-> ClassDog, conf |-> Conf6]>>]>>]

\* renders that differ in the class names of the detections
DetectionInit ==
    /\ BatchIdle
    /\ input \in [names : {<<>>},
                   selected : {NoSelection},
                   analysis : {InheritedNameAnalysis} \cup
                              Analyses({NameAJpg},
                                       [class_name : {ClassDog}, conf : {Conf6, Conf10}]
                                       \cup [class_name : {ClassCat, ClassSeven},
                                             conf : {Conf6}])]
    /\ view = NoRender

DetectionSpec == DetectionInit /\ [][RenderAnalysis]_vars

\* ================================================================ claims
InBatch(d, seq) == \E k \in 1..Len(seq) : seq[k] = d

\* the candidates (file positions) of submission s found in a batch
VisibleOf(s, seq) == {seq[k].file[2] : k \in {j \in 1..Len(seq) : seq[j].file[1] = s}}

\* the accepted candidates of submission s
CandidatesOf(s) == {sub[s].files[i] : i \in 1..Len(sub[s].files)}

AllSettled(s) == \A i \in TaskIds(s) : sub[s].task[i] \in {"loaded", "failed"}

\* C1: in every reachable state the batch (both copies) holds at most
\* maxImages descriptors.
C1_Capacity ==
    /\ Len(images) <= maxImages
    /\ Len(pageImages) <= maxImages

\* a full batch, and a submission in flight that had more image candidates
\* than maxImages
C1_Witness ==
    /\ Len(images) = maxImages
    /\ \E s \in Subs : /\ sub[s].status = "inflight"
                       /\ sub[s].nImage > maxImages
                       /\ Len(sub[s].files) = maxImages

\* C2: the selection is none or has the id of a descriptor of the batch.
C2_SelectionInBatch ==
    \/ selectedImage = Null
    \/ \E k \in 1..Len(images) : images[k].id = selectedImage.id

\* C3: the terminal update of a submit with k image candidates, made on a
\* batch of p descriptors, leaves p + min(k, maxImages - p) descriptors and
\* keeps the p prior descriptors.
C3_SubmitCount ==
    [][last'.op = "commit" =>
         LET p == Len(images)
             k == sub[last'.s].nImage
         IN  /\ Len(images') = p + Min(k, maxImages - p)
             /\ \A j \in 1..p : images'[j] = images[j]]_vars

\* C4: after the terminal update the new descriptors follow all prior ones
\* and are in the order in which their candidates were submitted.
C4_SubmitOrder ==
    [][last'.op = "commit" =>
         LET p == Len(images)
             n == Len(images')
         IN  /\ n >= p
             /\ \A j \in 1..p : images'[j] = images[j]
             /\ \A a, b \in (p + 1)..n :
                    a < b => images'[a].file[2] < images'[b].file[2]]_vars

\* C5: once every decode of a submission has settled, the candidates whose
\* decode succeeded are in the batch, also when another decode failed.
C5_FailureIsolated ==
    \A s \in Subs :
        (sub[s].status = "inflight" /\ AllSettled(s)) =>
            \A k \in 1..Len(sub[s].newImages) : InBatch(sub[s].newImages[k], images)

\* C6: every submit that started decodes eventually makes its terminal
\* update, and the uploading state eventually ends.
C6_SubmitTerminates ==
    /\ \A s \in Subs : (sub[s].status = "inflight") ~> (sub[s].status = "committed")
    /\ uploading ~> ~uploading

\* C7: no candidate of a submission is in either copy of the batch before
\* the submission's terminal update, and the terminal update, made by the
\* last decode to complete, makes all its candidates visible at once.
C7_NoPartial ==
    /\ [](\A s \in Subs : sub[s].status # "committed" =>
             (VisibleOf(s, images) = {} /\ VisibleOf(s, pageImages) = {}))
    /\ [][\A s \in Subs :
            (sub[s].status = "inflight" /\ sub'[s].status = "committed") =>
                /\ VisibleOf(s, images') = CandidatesOf(s)
                /\ VisibleOf(s, pageImages') = CandidatesOf(s)
                /\ Len(sub[s].newImages) = Len(sub[s].files) - 1]_vars

\* a submission of two candidates in flight, one of them decoded
C7_Witness ==
    \E s \in Subs : /\ sub[s].status = "inflight"
                   /\ Len(sub[s].files) >= 2
                   /\ Len(sub[s].newImages) = 1

\* C8: after the removal of the selected descriptor the selection is the
\* first descriptor of the batch, or none when the batch is empty.
C8_RemoveSelected ==
    (last.op = "remove" /\ last.hit) =>
        IF images = <<>> THEN selectedImage = Null ELSE selectedImage = images[1]

\* the selected descriptor was removed and another one is left
C8_Witness ==
    /\ last.op = "remove"
    /\ last.hit
    /\ Len(images) >= 1

\* C9: after clear the batch is empty and nothing is selected.
C9_ClearAll ==
    last.op = "clear" => (images = <<>> /\ selectedImage = Null)

\* C10: the terminal update of a submit selects the first new descriptor
\* when the batch was empty and nothing was selected, and leaves the
\* selection alone otherwise.
C10_SubmitSelection ==
    [][last'.op = "commit" =>
         IF images = <<>> /\ selectedImage = Null
         THEN Len(images') > 0 /\ selectedImage'.id = images'[1].id
         ELSE selectedImage'.id = selectedImage.id]_vars

\* C11: no two descriptors of the batch (either copy) have the same id.
C11_UniqueIds ==
    /\ \A a, b \in 1..Len(images) : a # b => images[a].id # images[b].id
    /\ \A a, b \in 1..Len(pageImages) : a # b => pageImages[a].id # pageImages[b].id

\* two descriptors admitted at the same clock value, by a submission that
\* completed after another one had
C11_Witness ==
    /\ last.op = "commit"
    /\ Len(images) = 2
    /\ images[1].id[1] = images[2].id[1]
    /\ \E s \in Subs : s # last.s /\ sub[s].status = "committed"

NumSettled(s) == Cardinality({i \in TaskIds(s) : sub[s].task[i] \in {"loaded", "failed"}})

\* C13: every decode of a submission that settles before the last one
\* reports, as progress, the number of decodes of the submission settled so
\* far against the number of accepted candidates (the last one reports the
\* full count and resets the progress in the same handler).
C13_Progress ==
    [][\A s \in Subs :
          (/\ sub[s].status = "inflight"
           /\ sub'[s].status = "inflight"
           /\ NumSettled(s)' = NumSettled(s) + 1)
          => uploadProgress' = <<NumSettled(s)' * 100, Len(sub[s].files)>>]_vars

IdInBatch(id, seq) == \E k \in 1..Len(seq) : seq[k].id = id

HasDot(name) == \E i \in 1..Len(name) : name[i] = "."

\* the substring after the last '.' of a name that has one
AfterLastDot(name) ==
    LET d == CHOOSE i \in 1..Len(name) :
                 name[i] = "." /\ \A j \in (i + 1)..Len(name) : name[j] # "."
    IN  SubSeq(name, d + 1, Len(name))

\* the format the claim counts a name under; a name that ends with its last
\* '.' has no extension either and is read as UNKNOWN too
ClaimedFormat(name) ==
    IF HasDot(name) /\ AfterLastDot(name) # <<>>
    THEN ToUpperCase(AfterLastDot(name))
    ELSE Unknown

\* the value of the entry of a format, 0 when it has none
CountOf(data, f) ==
    IF \E i \in 1..Len(data) : data[i].name = f
    THEN data[CHOOSE i \in 1..Len(data) : data[i].name = f].value
    ELSE 0

\* C14: every descriptor is counted under UNKNOWN when its name has no '.',
\* and under the uppercased substring after the last '.' otherwise: each
\* entry of the distribution counts the names with that format.
C14_FormatOfName ==
    view # NoRender =>
        /\ \A i \in 1..Len(input.names) :
              CountOf(view.formatData, ClaimedFormat(input.names[i])) =
                  Cardinality({j \in 1..Len(input.names) :
                                 ClaimedFormat(input.names[j]) = ClaimedFormat(input.names[i])})
        /\ \A e \in 1..Len(view.formatData) :
              \E i \in 1..Len(input.names) :
                  ClaimedFormat(input.names[i]) = view.formatData[e].name

RECURSIVE SumValues(_)
SumValues(data) ==
    IF data = <<>> THEN 0 ELSE Head(data).value + SumValues(Tail(data))

\* the formats of the names, each at the place of its first occurrence
RECURSIVE FirstSeen(_, _)
FirstSeen(names, seen) ==
    IF names = <<>> THEN <<>>
    ELSE LET f == ExtOf(Head(names))
         IN  IF f \in seen THEN FirstSeen(Tail(names), seen)
             ELSE <<f>> \o FirstSeen(Tail(names), seen \cup {f})

EntryNames(data) == [i \in 1..Len(data) |-> data[i].name]

\* C15 (as claimed): the counts add up to the number of descriptors and the
\* entries are in first-seen order of their formats.
C15_FirstSeenOrder ==
    view # NoRender =>
        /\ SumValues(view.formatData) = Len(input.names)
        /\ EntryNames(view.formatData) = FirstSeen(input.names, {})

\* C15 (amended): the counts add up to the number of descriptors; the
\* formats that are integer-like come first, in ascending numeric order, and
\* the other formats follow in first-seen order.
C15_EntriesOrder ==
    view # NoRender =>
        LET names == EntryNames(view.formatData)
            seen == FirstSeen(input.names, {})
            NotIndex(f) == ~IsArrayIndex(f)
            nIndex == Cardinality({i \in 1..Len(names) : IsArrayIndex(names[i])})
        IN  /\ SumValues(view.formatData) = Len(input.names)
            /\ Len(names) = Len(seen)
            /\ {names[i] : i \in 1..Len(names)} = {seen[i] : i \in 1..Len(seen)}
            /\ \A i \in 1..Len(names) : IsArrayIndex(names[i]) <=> i <= nIndex
            /\ \A i, j \in 1..nIndex : i < j => ToNumber(names[i]) < ToNumber(names[j])
            /\ SubSeq(names, nIndex + 1, Len(names)) = SelectSeq(seen, NotIndex)

\* a batch whose integer-like format is seen last and listed first, with a
\* format counted twice
C15_Witness ==
    /\ view # NoRender
    /\ input.names = <<NameAJpg, NameCJpg, NameSeven>>
    /\ view.formatData = <<[name |-> <<"7">>, value |-> 1],
                           [name |-> <<"J", "P", "G">>, value |-> 2]>>

\* ---------------------------------------------------------------- C16
\* the images of an analysis that have at least one detection
WithDetections(imgs) ==
    LET Has(img) == img.detections # <<>> IN SelectSeq(imgs, Has)

\* the average the dashboard is said to show
ClaimedAverage(analysis) ==
    LET imgs == WithDetections(analysis.images)
    IN  IF imgs = <<>> THEN Num(0)
        ELSE MathRound(Times100(DivBy(SumMeans(imgs), Len(imgs))))

\* C16: with an analysis present, dashboard.averageConfidence is the rounded
\* percentage of the mean, over the analysed images that have a detection,
\* of each image's mean confidence, and 0 when no image has a detection.
C16_AverageConfidence ==
    (view # NoRender /\ input.analysis.present)
        => view.analysisData.dashboard.averageConfidence = ClaimedAverage(input.analysis)

\* ---------------------------------------------------------------- C17
\* the confidence the summary is said to show
ClaimedConfidence(analysis, selected) ==
    LET c == CurrentImageAnalysis(analysis, selected)
    IN  IF c = 0 \/ analysis.images[c].detections = <<>> THEN Num(0)
        ELSE MathRound(Times100(MeanConf(analysis.images[c].detections)))

\* C17: with an analysis present, summary.confidence is the rounded
\* percentage of the mean confidence of the analysed image that has the
\* selected descriptor's name, 0 when that image has no detections, and 0
\* with no selection or no match.
C17_SummaryConfidence ==
    (view # NoRender /\ input.analysis.present)
        => view.analysisData.summary.confidence
               = ClaimedConfidence(input.analysis, input.selected)

\* ---------------------------------------------------------------- C19
\* C19: with no analysis, for every batch and every selection, a render
\* yields the placeholder description, no labels, summary confidence 0,
\* detection count 0, average confidence 0 and an empty detection
\* distribution.
C19_NoAnalysis ==
    (view # NoRender /\ ~input.analysis.present)
        => /\ view.analysisData.summary.description = <<"placeholder">>
           /\ view.analysisData.summary.labels = <<>>
           /\ view.analysisData.summary.confidence = Num(0)
           /\ view.analysisData.dashboard.detectionCount = 0
           /\ view.analysisData.dashboard.averageConfidence = Num(0)
           /\ view.detectionData = <<>>

\* a render without analysis of a batch of two descriptors, one selected
C19_Witness ==
    /\ ~input.analysis.present
    /\ input.names = <<NameAJpg, NameBPng>>
    /\ input.selected = [sel |-> TRUE, name |-> NameAJpg]
    /\ view # NoRender
    /\ view.analysisData.summary.description = <<"placeholder">>
    /\ view.detectionData = <<>>

\* ---------------------------------------------------------------- C18
\* the detections of all images of an analysis, in order
RECURSIVE AllDetections(_)
AllDetections(imgs) ==
    IF imgs = <<>> THEN <<>>
    ELSE Head(imgs).detections \o AllDetections(Tail(imgs))

ClassesOf(dets) == {dets[i].class_name : i \in 1..Len(dets)}

OfClass(dets, class) ==
    LET Is(det) == det.class_name = class IN SelectSeq(dets, Is)

FirstSeenAt(dets, class) ==
    CHOOSE i \in 1..Len(dets) :
        /\ dets[i].class_name = class
        /\ \A j \in 1..(i - 1) : dets[j].class_name # class

\* the order of Object.entries: integer-like names in ascending numeric
\* order, then the other names as first seen
EntryBefore(dets, a, b) ==
    IF IsArrayIndex(a)
    THEN IsArrayIndex(b) => ToNumber(a) < ToNumber(b)
    ELSE ~IsArrayIndex(b) /\ FirstSeenAt(dets, a) < FirstSeenAt(dets, b)

\* the entry of a class under a label
EntryOf(dets, class, label) ==
    [name |-> label,
     count |-> Len(OfClass(dets, class)),
     confidence |-> MathRound(Times100(MeanConf(OfClass(dets, class))))]

\* a class name with its first character in upper case
UpperFirst(class) ==
    [i \in 1..Len(class) |-> IF i = 1 THEN UpperChar(class[i]) ELSE class[i]]

\* the arrangements of a set of classes
Arrangements(classes) ==
    {f \in [1..Cardinality(classes) -> classes] :
        \A i, j \in 1..Cardinality(classes) : i # j => f[i] # f[j]}

\* C18 as stated: one entry per distinct class name of the detections,
\* labelled with the class name as given, with the count of the class and the
\* rounded percentage of its mean confidence; ordered by count descending,
\* equal counts in first-seen order.
C18_LabelsAsGiven ==
    (view # NoRender /\ input.analysis.present)
        => LET dets == AllDetections(input.analysis.images)
           IN  \E f \in Arrangements(ClassesOf(dets)) :
                   /\ view.detectionData
                          = [i \in 1..Len(f) |-> EntryOf(dets, f[i], f[i])]
                   /\ \A i, j \in 1..Len(f) : i < j =>
                          \/ Len(OfClass(dets, f[i])) > Len(OfClass(dets, f[j]))
                          \/ /\ Len(OfClass(dets, f[i])) = Len(OfClass(dets, f[j]))
                             /\ FirstSeenAt(dets, f[i]) < FirstSeenAt(dets, f[j])

\* C18 (amended): one entry per distinct class name that is not a name
\* inherited from Object.prototype, labelled with the class name with its
\* first character in upper case, with the count of the class and the
\* rounded percentage of its mean confidence; ordered by count descending,
\* equal counts in the order of Object.entries.
C18_Distribution ==
    (view # NoRender /\ input.analysis.present)
        => LET dets == AllDetections(input.analysis.images)
           IN  \E f \in Arrangements(ClassesOf(dets) \ InheritedKeys) :
                   /\ view.detectionData
                          = [i \in 1..Len(f) |-> EntryOf(dets, f[i], UpperFirst(f[i]))]
                   /\ \A i, j \in 1..Len(f) : i < j =>
                          \/ Len(OfClass(dets, f[i])) > Len(OfClass(dets, f[j]))
                          \/ /\ Len(OfClass(dets, f[i])) = Len(OfClass(dets, f[j]))
                             /\ EntryBefore(dets, f[i], f[j])

\* detections 7 and dog (0.6) in one image and dog (1) in another: Dog with
\* count 2 and confidence 80 comes before 7
C18_Witness ==
    /\ input.analysis.present
    /\ AllDetections(input.analysis.images)
           = <<[class_name |-> ClassSeven, conf |-> Conf6],
               [class_name |-> ClassDog, conf |-> Conf6],
               [class_name |-> ClassDog, conf |-> Conf10]>>
    /\ Len(input.analysis.images) = 2
    /\ view # NoRender
    /\ view.detectionData
           = <<[name |-> <<"D", "o", "g">>, count |-> 2, confidence |-> Num(80)],
               [name |-> <<"7">>, count |-> 1, confidence |-> Num(60)]>>

\* ---------------------------------------------------------------- C21
\* C21: the terminal update of a submit appends to the batch as it is when
\* the last decode completes: the descriptors in the batch at that moment
\* (those an overlapping submit admitted before, less those removed
\* meanwhile) stay, in order, in front of the descriptors of this submit.
C21_AppendsToCurrent ==
    [][last'.op = "commit" =>
         /\ Len(images') > Len(images)
         /\ SubSeq(images', 1, Len(images)) = images
         /\ \A k \in (Len(images) + 1)..Len(images') : images'[k].file[1] = last'.s]_vars

\* ---------------------------------------------------------------- C22
\* C22: in every reachable state the batch held by the page is the same
\* descriptor sequence as the batch held by the upload component.
C22_SameBatch ==
    pageImages = images

\* a remove has left one descriptor of a batch of two in both copies
C22_Witness ==
    /\ last.op = "remove"
    /\ Len(images) = 1
    /\ pageImages = images

====
